---- MODULE Spec2Model ----
(***************************************************************************)
(* lambda_function.py: one invocation fetches a weather forecast over      *)
(* HTTP with a bounded retry loop, serialises it and puts it into an S3    *)
(* bucket under a dated key whose numeric suffix is derived from a listing *)
(* of the bucket.                                                          *)
(*                                                                         *)
(* Text is modelled as a sequence of one-character strings; "LF" stands    *)
(* for the line feed character U+000A.  Python dicts are modelled as       *)
(* insertion-ordered sequences of <<key, value>> pairs inside tagged       *)
(* values <<"dict", pairs>>, <<"list", elems>>, <<"str", s>>, <<"none">>.  *)
(***************************************************************************)
EXTENDS Integers, Sequences, FiniteSets, TLC

\* ------------------------------------------------------------------ bounds

\* Invocations started in one behaviour.
MaxRuns == 2

\* Keys one list_objects_v2 response holds (S3: 1000), scaled down.
MaxKeys == 3

\* The max_retries parameter of get_weather_data (10 by default), scaled down.
max_retries == 2

\* The interval parameter of get_weather_data: seconds slept after a failure.
interval == 3

\* The days of the month the wall clock shows: it starts on the first.
Days == {1, 2}

\* ------------------------------------------------------------------- text

Digits == <<"0", "1", "2", "3", "4", "5", "6", "7", "8", "9">>

IsDigit(c) == \E i \in 1..10 : Digits[i] = c

DigitVal(c) == (CHOOSE i \in 1..10 : Digits[i] = c) - 1

\* Code points, for the byte order S3 lists keys in.
Ord(c) ==
    CASE c = "LF" -> 10
      [] c = "/" -> 47
      [] IsDigit(c) -> 48 + DigitVal(c)
      [] c = "_" -> 95
      [] c = "p" -> 112
      [] c = "w" -> 119
      [] c = "x" -> 120

\* str(n) of a non-negative integer, as in the f-string f"{next_number}".
RECURSIVE IntToStr(_)
IntToStr(n) ==
    IF n < 10 THEN <<Digits[n + 1]>>
    ELSE IntToStr(n \div 10) \o <<Digits[(n % 10) + 1]>>

\* int(s) of a non-empty string of decimal digits (leading zeros allowed).
RECURSIVE StrToInt(_)
StrToInt(s) ==
    IF Len(s) = 0 THEN 0
    ELSE 10 * StrToInt(SubSeq(s, 1, Len(s) - 1)) + DigitVal(s[Len(s)])

\* datetime.now().strftime("%Y%m%d") on day d of January 2024.
Strftime(d) ==
    <<"2", "0", "2", "4", "0", "1">> \o
    (IF d < 10 THEN <<"0">> \o IntToStr(d) ELSE IntToStr(d))

StartsWith(s, pre) ==
    /\ Len(pre) <= Len(s)
    /\ SubSeq(s, 1, Len(pre)) = pre

\* Byte-wise lexicographic order on keys.
RECURSIVE LexLess(_, _)
LexLess(a, b) ==
    IF Len(a) = 0 THEN Len(b) > 0
    ELSE IF Len(b) = 0 THEN FALSE
    ELSE IF a[1] = b[1] THEN LexLess(Tail(a), Tail(b))
    ELSE Ord(a[1]) < Ord(b[1])

RECURSIVE SortKeys(_)
SortKeys(S) ==
    IF S = {} THEN <<>>
    ELSE LET m == CHOOSE k \in S : \A j \in S : j = k \/ LexLess(k, j)
         IN  <<m>> \o SortKeys(S \ {m})

Max(S, default) ==
    IF S = {} THEN default ELSE CHOOSE m \in S : \A n \in S : n <= m

Range(s) == {s[i] : i \in 1..Len(s)}

\* ------------------------------------------------------- configuration

\* AWS_CONFIG['prefix'], read from the environment.
prefix == <<"p", "/">>

\* AWS_CONFIG['file_key'] = 'lambda_weather_data_test', shortened.
file_key == <<"w">>

\* full_file_name = f"{prefix}{file_name}"
full_file_name == prefix \o file_key

\* file_name = f"{file_name}_{today_str}"
DatedName(name, d) == name \o <<"_">> \o Strftime(d)

\* --------------------------------------------------------- key resolution

NoMatch == [matched |-> FALSE, group1 |-> <<>>]

\* pattern.match(key) for pattern ^{re.escape(file_name)}(?:_(\d+))?$ .
\* group1 is <<>> when group(1) is None.  Python's $ matches at the end of
\* the string and also just before a line feed that ends the string.
PatternMatch(file_name, key) ==
    IF ~StartsWith(key, file_name) THEN NoMatch
    ELSE LET rest == SubSeq(key, Len(file_name) + 1, Len(key))
             core == IF Len(rest) > 0 /\ rest[Len(rest)] = "LF"
                     THEN SubSeq(rest, 1, Len(rest) - 1)
                     ELSE rest
         IN  IF Len(core) = 0
             THEN [matched |-> TRUE, group1 |-> <<>>]
             ELSE IF /\ Len(core) >= 2
                     /\ core[1] = "_"
                     /\ \A i \in 2..Len(core) : IsDigit(core[i])
             THEN [matched |-> TRUE, group1 |-> Tail(core)]
             ELSE NoMatch

\* existing_numbers = [int(match.group(1)) for obj in contents
\*                     if (match := pattern.match(obj['Key'])) and match.group(1)]
existing_numbers(file_name, contents) ==
    {StrToInt(PatternMatch(file_name, contents[i]).group1) :
        i \in {j \in 1..Len(contents) :
                 /\ PatternMatch(file_name, contents[j]).matched
                 /\ PatternMatch(file_name, contents[j]).group1 # <<>>}}

\* next_number with the increment left out.
next_number_same(file_name, contents) ==
    Max({StrToInt(PatternMatch(file_name, contents[i]).group1) :
            i \in {j \in 1..Len(contents) :
                     /\ PatternMatch(file_name, contents[j]).matched
                     /\ PatternMatch(file_name, contents[j]).group1 # <<>>}}, 0)

\* max_number = max(existing_numbers, default=0); next_number = max_number + 1
next_number(file_name, contents) ==
    Max(existing_numbers(file_name, contents), 0) + 1

\* new_file_name = f"{file_name}_{next_number}"
NewFileName(file_name, contents) ==
    file_name \o <<"_">> \o IntToStr(next_number(file_name, contents))

\* s3.list_objects_v2(Bucket=bucket, Prefix=file_name).get('Contents', []):
\* the keys that begin with the prefix, in byte order, one page of them only
\* (the call passes no ContinuationToken and never looks at IsTruncated).
ListObjectsV2(keys, pre) ==
    LET all == SortKeys({k \in keys : StartsWith(k, pre)})
    IN  SubSeq(all, 1, IF Len(all) < MaxKeys THEN Len(all) ELSE MaxKeys)

\* ------------------------------------------------- response, decode, encode

Str(s) == <<"str", s>>
Dict(pairs) == <<"dict", pairs>>
List(elems) == <<"list", elems>>
None == <<"none">>

\* The dict_data local before its first assignment.
Unbound == <<"unbound">>

\* What the extraction loop does on a value it cannot index.
LookupError == <<"LookupError">>

\* One <item> element of the forecast response.
Item(category, fcstValue) == [category |-> category, fcstValue |-> fcstValue]

\* Bodies the upstream API answers a 2xx with: not XML at all, an XML error
\* document without response/body/items/item, and forecasts.
BadXml == [wellformed |-> FALSE, haspath |-> FALSE, items |-> <<>>]
ErrorDoc == [wellformed |-> TRUE, haspath |-> FALSE, items |-> <<>>]
Forecast(items) == [wellformed |-> TRUE, haspath |-> TRUE, items |-> items]

Bodies ==
    { BadXml,
      ErrorDoc,
      Forecast(<<Item("PTY", "0"), Item("FOO", "99"), Item("REH", "55"), Item("PTY", "1")>>) }

\* The request outcomes the except clauses of get_weather_data name.
RequestErrors == {"HTTPError", "ConnectionError", "Timeout", "RequestException"}

ItemDict(it) ==
    Dict(<< <<"category", Str(it.category)>>, <<"fcstValue", Str(it.fcstValue)>> >>)

\* xmltodict.parse(res.text) of a well-formed body: nested dicts; repeated
\* <item> elements become a list, a single one a dict, none at all None.
Parse(body) ==
    IF ~body.haspath
    THEN Dict(<< <<"OpenAPI_ServiceResponse", Dict(<< <<"cmmMsgHeader", None>> >>)>> >>)
    ELSE LET n == Len(body.items)
             item == IF n = 1 THEN ItemDict(body.items[1])
                     ELSE List([i \in 1..n |-> ItemDict(body.items[i])])
             items == IF n = 0 THEN None ELSE Dict(<< <<"item", item>> >>)
         IN  Dict(<< <<"response",
                       Dict(<< <<"header", Dict(<< <<"resultCode", Str("00")>> >>)>>,
                               <<"body", Dict(<< <<"items", items>> >>)>> >>)>> >>)

HasKey(d, k) == d[1] = "dict" /\ \E i \in 1..Len(d[2]) : d[2][i][1] = k

\* d[k]
Get(d, k) ==
    IF HasKey(d, k)
    THEN d[2][CHOOSE i \in 1..Len(d[2]) : d[2][i][1] = k][2]
    ELSE LookupError

\* d[k] = v: an existing key keeps its place, a new one goes last.
Set(d, k, v) ==
    IF HasKey(d, k)
    THEN Dict([i \in 1..Len(d[2]) |-> IF d[2][i][1] = k THEN <<k, v>> ELSE d[2][i]])
    ELSE Dict(Append(d[2], <<k, v>>))

\* The seven category codes the loop tests and the field each one sets.
Fields ==
    << <<"PTY", "pty">>, <<"REH", "reh">>, <<"SKY", "sky">>, <<"TMN", "tmn">>,
       <<"TMX", "tmx">>, <<"VEC", "vec">>, <<"WSD", "wsd">> >>

\* The body of the for loop for one item.
ExtractItem(weather_data, item) ==
    LET category == Get(item, "category")
        hits == {i \in 1..Len(Fields) : category = Str(Fields[i][1])}
    IN  IF hits = {} THEN weather_data
        ELSE Set(weather_data, Fields[CHOOSE i \in hits : TRUE][2],
                 Get(item, "fcstValue"))

RECURSIVE ExtractLoop(_, _)
ExtractLoop(weather_data, items) ==
    IF Len(items) = 0 THEN weather_data
    ELSE ExtractLoop(ExtractItem(weather_data, items[1]), Tail(items))

\* weather_data = {}; for item in dict_data['response']['body']['items']['item']
WeatherData(dict_data) ==
    LET item == Get(Get(Get(Get(dict_data, "response"), "body"), "items"), "item")
    IN  IF item[1] = "list" THEN ExtractLoop(Dict(<<>>), item[2])
        ELSE LookupError

\* json.dumps(v), as the sequence of its lexical tokens; .encode('UTF-8')
\* leaves ASCII text as it is.
RECURSIVE Dumps(_)
RECURSIVE DumpsPairs(_)
RECURSIVE DumpsElems(_)
DumpsPairs(pairs) ==
    IF Len(pairs) = 0 THEN <<>>
    ELSE <<"\"" \o pairs[1][1] \o "\"", ":">> \o Dumps(pairs[1][2])
         \o (IF Len(pairs) > 1 THEN <<",">> ELSE <<>>) \o DumpsPairs(Tail(pairs))

DumpsElems(elems) ==
    IF Len(elems) = 0 THEN <<>>
    ELSE Dumps(elems[1])
         \o (IF Len(elems) > 1 THEN <<",">> ELSE <<>>) \o DumpsElems(Tail(elems))

Dumps(v) ==
    CASE v[1] = "str" -> <<"\"" \o v[2] \o "\"">>
      [] v[1] = "none" -> <<"null">>
      [] v[1] = "dict" -> <<"{">> \o DumpsPairs(v[2]) \o <<"}">>
      [] v[1] = "list" -> <<"[">> \o DumpsElems(v[2]) \o <<"]">>

\* process_weather_data
process_weather_data(weather_data) == Dumps(weather_data)

\* ------------------------------------------------------------------ state

\* Invocations that can be in flight at once.
Slots == {"a", "b"}

VARIABLES
    config,         \* the environment variables that are not set
    failedPut,      \* the last put that raised, while no put has succeeded since
    today,          \* the wall clock's day of the month
    bucket,         \* the S3 bucket: key -> [Body, writer]
    started,        \* invocations started so far
    pc,             \* where each invocation is
    run,            \* the serial number of the invocation a slot executes
    attempt,        \* the loop variable of for _ in range(max_retries)
    res,            \* the body of the last 2xx response
    dict_data,      \* locals of get_weather_data / lambda_handler
    encoded_data,
    file_name,      \* locals of get_existing_filename
    contents,
    new_file_name,
    result,         \* what upload_file_to_s3 returned
    statusCode,     \* what lambda_handler returned (0: nothing yet)
    error,          \* the exception that left lambda_handler ("none": none)
    calls,          \* calls made to the collaborators, by kind
    stages          \* the stages the invocation has entered, in order

vars ==
    <<config, failedPut, today, bucket, started, pc, run, attempt, res, dict_data, encoded_data,
      file_name, contents, new_file_name, result, statusCode, error, calls,
      stages>>

env == <<config, failedPut, today, bucket, started>>

fetchLocals == <<attempt, res, dict_data>>

uploadLocals == <<file_name, contents, new_file_name, result>>

NoCalls ==
    [get |-> 0, failed |-> 0, undecoded |-> 0, sleep |-> 0, waited |-> 0,
     list |-> 0, listfailed |-> 0, put |-> 0, putfailed |-> 0]

\* What os.getenv may find unset when the module is loaded: nothing, the
\* upstream URL, the bucket name.
Configs == {{}, {"WEATHER_OPENAPI_URL"}, {"BUCKET"}}

NoFailedPut == [file_name |-> <<>>, key |-> <<>>]

\* Objects other writers left in the bucket before the first invocation.
Day1 == DatedName(full_file_name, 1)

\* What the bucket may hold at first: nothing; a bare dated name, two
\* numbered ones and one with trailing text; a numbered name and one that
\* ends in a line feed; all of these.
SeedBuckets ==
    { {},
      { Day1, Day1 \o <<"_", "1">>, Day1 \o <<"_", "3">>,
        Day1 \o <<"_", "3", "_", "x">> },
      { Day1 \o <<"_", "1">>, Day1 \o <<"_", "2", "LF">> },
      { Day1, Day1 \o <<"_", "1">>, Day1 \o <<"_", "3">>,
        Day1 \o <<"_", "3", "_", "x">>, Day1 \o <<"_", "2", "LF">> } }

SeedObject == [Body |-> <<"seed">>, writer |-> 0]

\* The stage of the orchestrator a program position belongs to.
Stage(at) ==
    CASE at \in {"get", "sleep"} -> "Fetching"
      [] at = "extract" -> "Extracting"
      [] at = "encode" -> "Encoding"
      [] at = "resolve" -> "ResolvingKey"
      [] at = "put" -> "Uploading"
      [] at \in {"result", "returned"} -> "Done"
      [] OTHER -> "none"

\* Move invocation p to position `at`, recording a stage it newly enters.
Goto(p, at) ==
    /\ pc' = [pc EXCEPT ![p] = at]
    /\ stages' = [stages EXCEPT ![p] =
                    IF Stage(at) \in {"none", Stage(pc[p])} THEN @
                    ELSE Append(@, Stage(at))]

Init ==
    /\ config \in Configs
    /\ failedPut = NoFailedPut
    /\ today = 1
    /\ \E keys \in SeedBuckets : bucket = [k \in keys |-> SeedObject]
    /\ started = 0
    /\ pc = [p \in Slots |-> "idle"]
    /\ run = [p \in Slots |-> 0]
    /\ attempt = [p \in Slots |-> 0]
    /\ res = [p \in Slots |-> BadXml]
    /\ dict_data = [p \in Slots |-> Unbound]
    /\ encoded_data = [p \in Slots |-> <<>>]
    /\ file_name = [p \in Slots |-> <<>>]
    /\ contents = [p \in Slots |-> <<>>]
    /\ new_file_name = [p \in Slots |-> <<>>]
    /\ result = [p \in Slots |-> FALSE]
    /\ statusCode = [p \in Slots |-> 0]
    /\ error = [p \in Slots |-> "none"]
    /\ calls = [p \in Slots |-> NoCalls]
    /\ stages = [p \in Slots |-> <<>>]

\* --------------------------------------------------------------- actions

Finished(p) == pc[p] \in {"idle", "returned", "raised"}

\* lambda_handler is left, by return or by an exception: its locals and those
\* of the functions it called are gone.
Unwind(p) ==
    /\ attempt' = [attempt EXCEPT ![p] = 0]
    /\ res' = [res EXCEPT ![p] = BadXml]
    /\ dict_data' = [dict_data EXCEPT ![p] = Unbound]
    /\ encoded_data' = [encoded_data EXCEPT ![p] = <<>>]
    /\ file_name' = [file_name EXCEPT ![p] = <<>>]
    /\ contents' = [contents EXCEPT ![p] = <<>>]
    /\ new_file_name' = [new_file_name EXCEPT ![p] = <<>>]
    /\ result' = [result EXCEPT ![p] = FALSE]

\* The wall clock passes midnight.
Tick ==
    /\ today + 1 \in Days
    /\ today' = today + 1
    /\ UNCHANGED <<config, failedPut, bucket, started, pc, run, attempt, res,
                   dict_data, encoded_data, file_name, contents, new_file_name, result,
                   statusCode, error, calls, stages>>

\* lambda_handler() is entered: get_weather_data starts its loop.
Enter(p) ==
    /\ Finished(p)
    /\ started < MaxRuns
    /\ started' = started + 1
    /\ run' = [run EXCEPT ![p] = started + 1]
    /\ pc' = [pc EXCEPT ![p] = "get"]
    /\ stages' = [stages EXCEPT ![p] = <<"Fetching">>]
    /\ statusCode' = [statusCode EXCEPT ![p] = 0]
    /\ error' = [error EXCEPT ![p] = "none"]
    /\ calls' = [calls EXCEPT ![p] = NoCalls]
    /\ UNCHANGED <<config, failedPut, today, bucket, fetchLocals, encoded_data,
                   uploadLocals>>

\* An invocation starts while another may be in flight.
Start(p) == Enter(p)

\* An invocation starts when no other is in flight.
StartAlone(p) ==
    /\ \A q \in Slots : Finished(q)
    /\ Enter(p)

\* requests.get or raise_for_status raises one of the caught exceptions: the
\* except clause prints it and control falls to time.sleep.  With the URL unset
\* requests.get(url=None) raises MissingSchema, a RequestException, each time.
GetFails(p) ==
    /\ pc[p] = "get"
    /\ \E e \in RequestErrors :
         calls' = [calls EXCEPT ![p].get = @ + 1, ![p].failed = @ + 1]
    /\ Goto(p, "sleep")
    /\ UNCHANGED <<env, run, fetchLocals, encoded_data, uploadLocals,
                   statusCode, error>>

\* The success path with the return left out: dict_data is assigned and the
\* loop goes on to its sleep.
GetSucceedsStaysInLoop(p) ==
    /\ pc[p] = "get"
    /\ "WEATHER_OPENAPI_URL" \notin config
    /\ \E body \in {b \in Bodies : b.wellformed} :
         /\ res' = [res EXCEPT ![p] = body]
         /\ dict_data' = [dict_data EXCEPT ![p] = Parse(body)]
    /\ calls' = [calls EXCEPT ![p].get = @ + 1]
    /\ Goto(p, "sleep")
    /\ UNCHANGED <<env, run, attempt, encoded_data, uploadLocals, statusCode,
                   error>>

\* requests.get answers 2xx with a body xmltodict parses: return dict_data.
GetSucceeds(p) ==
    /\ pc[p] = "get"
    /\ "WEATHER_OPENAPI_URL" \notin config
    /\ \E body \in {b \in Bodies : b.wellformed} :
         /\ res' = [res EXCEPT ![p] = body]
         /\ dict_data' = [dict_data EXCEPT ![p] = Parse(body)]
    /\ calls' = [calls EXCEPT ![p].get = @ + 1]
    /\ Goto(p, "encode")
    /\ UNCHANGED <<env, run, attempt, encoded_data, uploadLocals, statusCode,
                   error>>

\* The decode error caught like a request error: printed, then the sleep.
GetUnparsableRetried(p) ==
    /\ pc[p] = "get"
    /\ "WEATHER_OPENAPI_URL" \notin config
    /\ calls' = [calls EXCEPT ![p].get = @ + 1, ![p].undecoded = @ + 1]
    /\ Goto(p, "sleep")
    /\ UNCHANGED <<env, run, fetchLocals, encoded_data, uploadLocals,
                   statusCode, error>>

\* requests.get answers 2xx with a body xmltodict rejects: ExpatError is no
\* RequestException, so no except clause catches it.
GetUnparsable(p) ==
    /\ pc[p] = "get"
    /\ "WEATHER_OPENAPI_URL" \notin config
    /\ \E body \in {b \in Bodies : ~b.wellformed} : TRUE
    /\ calls' = [calls EXCEPT ![p].get = @ + 1, ![p].undecoded = @ + 1]
    /\ error' = [error EXCEPT ![p] = "ExpatError"]
    /\ Goto(p, "raised")
    /\ Unwind(p)
    /\ UNCHANGED <<env, run, statusCode>>

\* The loop bound off by one: range(max_retries + 1).
LoopContinuesOnceMore(n) == n < max_retries + 1

\* for _ in range(max_retries): whether the loop runs its body once more.
LoopContinues(n) == n < max_retries

\* The loop with time.sleep left inside an except clause that was not taken:
\* the next iteration starts without a wait.
SleepSkipped(p) ==
    /\ pc[p] = "sleep"
    /\ attempt' = [attempt EXCEPT ![p] = @ + 1]
    /\ Goto(p, IF attempt[p] + 1 < max_retries THEN "get" ELSE "extract")
    /\ UNCHANGED <<env, run, res, dict_data, encoded_data, uploadLocals,
                   statusCode, error, calls>>

\* time.sleep(interval), then the next iteration or the end of the loop.
Sleep(p) ==
    /\ pc[p] = "sleep"
    /\ calls' = [calls EXCEPT ![p].sleep = @ + 1, ![p].waited = @ + interval]
    /\ attempt' = [attempt EXCEPT ![p] = @ + 1]
    /\ Goto(p, IF LoopContinues(attempt[p] + 1) THEN "get" ELSE "extract")
    /\ UNCHANGED <<env, run, res, dict_data, encoded_data, uploadLocals,
                   statusCode, error>>

\* The end of the loop with dict_data initialised to None before it: the
\* test is false and the function returns None.
AfterLoopReturnsNone(p) ==
    /\ pc[p] = "extract"
    /\ dict_data' = [dict_data EXCEPT ![p] = None]
    /\ Goto(p, "encode")
    /\ UNCHANGED <<env, run, attempt, res, encoded_data, uploadLocals,
                   statusCode, error, calls>>

\* The end of the loop as a wait for dict_data that nothing ever sets:
\* the invocation stays where it is.
AfterLoopSpins(p) ==
    /\ pc[p] = "extract"
    /\ UNCHANGED vars

\* if dict_data: after the loop.  Every path that assigns dict_data returns
\* on the next line, so here the name is unbound and the test raises.
AfterLoop(p) ==
    /\ pc[p] = "extract"
    /\ dict_data[p] = Unbound
    /\ error' = [error EXCEPT ![p] = "UnboundLocalError"]
    /\ Goto(p, "raised")
    /\ Unwind(p)
    /\ UNCHANGED <<env, run, statusCode, calls>>

\* encoded_data = process_weather_data(weather_data=weather_data)
Encode(p) ==
    /\ pc[p] = "encode"
    /\ encoded_data' = [encoded_data EXCEPT ![p] = process_weather_data(dict_data[p])]
    /\ Goto(p, "resolve")
    /\ UNCHANGED <<env, run, fetchLocals, uploadLocals, statusCode, error,
                   calls>>

\* A resolver that reserves the name it returns by storing an empty object.
GetExistingFilenameReserves(p) ==
    /\ pc[p] = "resolve"
    /\ "BUCKET" \notin config
    /\ LET name == DatedName(full_file_name, today)
           all_objects == ListObjectsV2(DOMAIN bucket, name)
       IN  /\ file_name' = [file_name EXCEPT ![p] = name]
           /\ contents' = [contents EXCEPT ![p] = all_objects]
           /\ new_file_name' = [new_file_name EXCEPT ![p] = NewFileName(name, all_objects)]
           /\ bucket' = [k \in DOMAIN bucket \cup {NewFileName(name, all_objects)} |->
                           IF k \in DOMAIN bucket THEN bucket[k]
                           ELSE [Body |-> <<>>, writer |-> run[p]]]
    /\ calls' = [calls EXCEPT ![p].list = @ + 1]
    /\ Goto(p, "put")
    /\ UNCHANGED <<config, failedPut, today, started, run, fetchLocals,
                   encoded_data, result, statusCode, error>>

\* get_existing_filename: one listing, then the next name.
GetExistingFilename(p) ==
    /\ pc[p] = "resolve"
    /\ "BUCKET" \notin config
    /\ LET name == DatedName(full_file_name, today)
           all_objects == ListObjectsV2(DOMAIN bucket, name)
       IN  /\ file_name' = [file_name EXCEPT ![p] = name]
           /\ contents' = [contents EXCEPT ![p] = all_objects]
           /\ new_file_name' = [new_file_name EXCEPT ![p] = NewFileName(name, all_objects)]
    /\ calls' = [calls EXCEPT ![p].list = @ + 1]
    /\ Goto(p, "put")
    /\ UNCHANGED <<env, run, fetchLocals, encoded_data, result, statusCode,
                   error>>

\* The listing inside the try of upload_file_to_s3: its exception is printed
\* and False returned.
ListRaisesCaught(p) ==
    /\ pc[p] = "resolve"
    /\ calls' = [calls EXCEPT ![p].list = @ + 1, ![p].listfailed = @ + 1]
    /\ result' = [result EXCEPT ![p] = FALSE]
    /\ Goto(p, "result")
    /\ UNCHANGED <<env, run, fetchLocals, encoded_data, file_name, contents,
                   new_file_name, statusCode, error>>

\* s3.list_objects_v2 raises: nothing in upload_file_to_s3 catches it there.
\* With the bucket name unset, Bucket=None fails the client's validation of
\* its parameters each time.
ListRaises(p) ==
    /\ pc[p] = "resolve"
    /\ calls' = [calls EXCEPT ![p].list = @ + 1, ![p].listfailed = @ + 1]
    /\ error' = [error EXCEPT ![p] = "ClientError"]
    /\ Goto(p, "raised")
    /\ Unwind(p)
    /\ UNCHANGED <<env, run, statusCode>>

\* A put that only creates: an existing object is kept.
PutObjectIfAbsent(objects, key, body, writer) ==
    [k \in DOMAIN objects \cup {key} |->
        IF k \in DOMAIN objects THEN objects[k]
        ELSE [Body |-> body, writer |-> writer]]

\* s3_client.put_object(Bucket, Key, Body): creates or replaces the object.
PutObject(objects, key, body, writer) ==
    [k \in DOMAIN objects \cup {key} |->
        IF k = key THEN [Body |-> body, writer |-> writer] ELSE objects[k]]

\* try: put_object(...); return True
PutSucceeds(p) ==
    /\ pc[p] = "put"
    /\ bucket' = PutObject(bucket, new_file_name[p], encoded_data[p], run[p])
    /\ calls' = [calls EXCEPT ![p].put = @ + 1]
    /\ result' = [result EXCEPT ![p] = TRUE]
    /\ failedPut' = NoFailedPut
    /\ Goto(p, "result")
    /\ UNCHANGED <<config, today, started, run, fetchLocals, encoded_data, file_name,
                   contents, new_file_name, statusCode, error>>

\* A put whose object is stored before the exception reaches the caller.
PutRaisesAfterStoring(p) ==
    /\ pc[p] = "put"
    /\ bucket' = PutObject(bucket, new_file_name[p], encoded_data[p], run[p])
    /\ calls' = [calls EXCEPT ![p].put = @ + 1, ![p].putfailed = @ + 1]
    /\ result' = [result EXCEPT ![p] = FALSE]
    /\ failedPut' = [file_name |-> file_name[p], key |-> new_file_name[p]]
    /\ Goto(p, "result")
    /\ UNCHANGED <<config, today, started, run, fetchLocals, encoded_data, file_name, contents,
                   new_file_name, statusCode, error>>

\* except Exception as e: print(e); return False
PutRaises(p) ==
    /\ pc[p] = "put"
    /\ calls' = [calls EXCEPT ![p].put = @ + 1, ![p].putfailed = @ + 1]
    /\ result' = [result EXCEPT ![p] = FALSE]
    /\ failedPut' = [file_name |-> file_name[p], key |-> new_file_name[p]]
    /\ Goto(p, "result")
    /\ UNCHANGED <<config, today, bucket, started, run, fetchLocals, encoded_data, file_name, contents,
                   new_file_name, statusCode, error>>

\* The answer with the result ignored.
StatusOfAlways200(ok) == 200

\* The statusCode lambda_handler answers with for a result.
StatusOf(ok) == IF ok THEN 200 ELSE 400

\* if result: return {'statusCode': 200, ...} else: return {'statusCode': 400, ...}
Return(p) ==
    /\ pc[p] = "result"
    /\ statusCode' = [statusCode EXCEPT ![p] = StatusOf(result[p])]
    /\ Goto(p, "returned")
    /\ Unwind(p)
    /\ UNCHANGED <<env, run, error, calls>>

Step(p) ==
    \/ GetFails(p)
    \/ GetSucceeds(p)
    \/ GetUnparsable(p)
    \/ Sleep(p)
    \/ AfterLoop(p)
    \/ Encode(p)
    \/ ListRaises(p)
    \/ GetExistingFilename(p)
    \/ PutSucceeds(p)
    \/ PutRaises(p)
    \/ Return(p)

\* Invocations may overlap.
Next ==
    \/ Tick
    \/ \E p \in Slots : Start(p)
    \/ \E p \in Slots : Step(p)

Spec == Init /\ [][Next]_vars

\* Invocations follow one another.
NextSeq ==
    \/ Tick
    \/ \E p \in Slots : StartAlone(p)
    \/ \E p \in Slots : Step(p)

SpecSeq == Init /\ [][NextSeq]_vars

\* Every call an invocation makes (requests.get, time.sleep, list_objects_v2,
\* put_object) returns or raises, and the interpreter keeps running the
\* invocation: a step it can take is eventually taken.  Invocations follow
\* one another; the path of one through its code does not depend on another.
SpecFair == SpecSeq /\ \A p \in Slots : WF_vars(Step(p))

\* ----------------------------------------------------------- properties

\* An invocation that has resolved its key and still holds its locals.
Resolved(p) == pc[p] \in {"put", "result"}

\* The suffixes of the listed keys that are exactly the dated name, "_" and
\* decimal digits, read off the keys directly.
ExactSuffixes(base, listed) ==
    {StrToInt(SubSeq(k, Len(base) + 2, Len(k))) :
        k \in {key \in Range(listed) :
                 /\ Len(key) >= Len(base) + 2
                 /\ SubSeq(key, 1, Len(base) + 1) = base \o <<"_">>
                 /\ \A i \in (Len(base) + 2)..Len(key) : IsDigit(key[i])}}

\* C1: whatever keys the listing returned, the resolved key is the dated name,
\* "_" and 1 + M, M being the largest suffix among the listed keys that are
\* exactly the dated name followed by "_" and decimal digits (0 if none); the
\* bare dated name and keys with trailing characters contribute nothing.
C1_NextSuffix ==
    \A p \in Slots :
        Resolved(p) =>
            new_file_name[p] =
                file_name[p] \o <<"_">>
                \o IntToStr(1 + Max(ExactSuffixes(file_name[p], contents[p]), 0))

\* C2: when invocations follow one another, no put changes an object that an
\* earlier invocation wrote (so no two of them resolved the same key).
C2_NoOverwrite ==
    [][\A k \in DOMAIN bucket :
          bucket[k].writer # 0 => bucket'[k] = bucket[k]]_vars

\* C3: when one invocation has put its object and another, which listed the
\* same keys for the same dated name before that put, completes its own put,
\* the two hold the same key and the later put replaces the earlier object.
C3_RaceLosesWrite ==
    [][\A p, q \in Slots :
          ( /\ p # q
            /\ pc[q] = "result" /\ result[q]
            /\ pc[p] = "put"
            /\ file_name[p] = file_name[q]
            /\ contents[p] = contents[q]
            /\ Len(contents[p]) < MaxKeys
            /\ pc'[p] = "result" /\ result'[p] )
          => /\ new_file_name[p] = new_file_name[q]
             /\ bucket[new_file_name[q]].writer = run[q]
             /\ bucket'[new_file_name[q]] =
                    [Body |-> encoded_data[p], writer |-> run[p]]]_vars

\* C3 witness: two invocations listed the same complete page, resolved the
\* same key, both puts completed and the bucket holds only the later one.
C3_RaceWitness ==
    \E p, q \in Slots :
        /\ p # q
        /\ pc[p] = "result" /\ result[p]
        /\ pc[q] = "result" /\ result[q]
        /\ contents[p] = contents[q]
        /\ Len(contents[p]) < MaxKeys
        /\ new_file_name[p] = new_file_name[q]
        /\ bucket[new_file_name[q]].writer = run[p]

\* C4: get_weather_data never issues more than max_retries GETs, and when
\* every attempt failed it has issued exactly max_retries and issues no more.
C4_RetryBound ==
    \A p \in Slots :
        /\ calls[p].get <= max_retries
        /\ calls[p].failed = max_retries =>
              /\ calls[p].get = max_retries
              /\ pc[p] # "get"
        /\ pc[p] = "extract" => calls[p].failed = max_retries

\* C4 witness: the loop ran out after max_retries failed attempts.
C4_Exhausted ==
    \E p \in Slots :
        /\ pc[p] = "extract"
        /\ calls[p].get = max_retries
        /\ calls[p].failed = max_retries

C6_ExhaustionIsFatal ==
    \A p \in Slots :
        calls[p].failed = max_retries =>
            /\ pc[p] \in {"sleep", "extract", "raised"}
            /\ dict_data[p] = Unbound
            /\ calls[p].list = 0
            /\ calls[p].put = 0
            /\ statusCode[p] = 0
            /\ pc[p] = "raised" => error[p] = "UnboundLocalError"

\* C6 witness: an invocation ended in the exception of the exhausted loop.
C6_RaisedAfterExhaustion ==
    \E p \in Slots :
        /\ pc[p] = "raised"
        /\ error[p] = "UnboundLocalError"
        /\ calls[p].failed = max_retries
        /\ calls[p].list = 0

\* C7: when put_object raised, upload_file_to_s3 made that one put call only
\* and returned False, and lambda_handler answers 400; it answers 200 only
\* when its one put call did not raise.
C7_PutFailureIs400 ==
    \A p \in Slots :
        /\ calls[p].putfailed > 0 =>
              /\ calls[p].put = 1
              /\ pc[p] \in {"result", "returned"}
              /\ pc[p] = "result" => ~result[p]
              /\ pc[p] = "returned" => statusCode[p] = 400
        /\ statusCode[p] = 200 =>
              /\ calls[p].put = 1
              /\ calls[p].putfailed = 0

\* C7 witness: an invocation whose put raised has answered 400.
C7_Answered400 ==
    \E p \in Slots :
        /\ pc[p] = "returned"
        /\ statusCode[p] = 400
        /\ calls[p].putfailed = 1

\* lambda_handler returns in this step, having listed no key for the dated name.
ReturnsAfterEmptyListing(p) ==
    /\ pc[p] = "result"
    /\ pc'[p] = "returned"
    /\ contents[p] = <<>>

\* C8 as stated: an invocation whose fetch succeeded and whose listing held no
\* key for the dated name answers 200 after exactly one put, to name_1.
C8_EmptyBucketAnswers200 ==
    [][\A p \in Slots :
          ReturnsAfterEmptyListing(p) =>
              /\ statusCode'[p] = 200
              /\ calls[p].put = 1
              /\ new_file_name[p] = file_name[p] \o <<"_", "1">>]_vars

\* C8 as amended: such an invocation has made exactly one put, to name_1, and
\* answers 200 when that put did not raise and 400 when it did; and every
\* invocation that has answered has made exactly one list and one put call.
C8_EmptyBucketOnePut ==
    /\ [][\A p \in Slots :
            ReturnsAfterEmptyListing(p) =>
                /\ calls[p].put = 1
                /\ calls[p].list = 1
                /\ new_file_name[p] = file_name[p] \o <<"_", "1">>
                /\ calls[p].putfailed = 0 => statusCode'[p] = 200
                /\ calls[p].putfailed > 0 => statusCode'[p] = 400]_vars
    /\ [](\A p \in Slots :
            pc[p] = "returned" =>
                /\ statusCode[p] \in {200, 400}
                /\ calls[p].put = 1
                /\ calls[p].list = 1)

\* C8 witness: the listing was empty, the one put went to name_1 and did not
\* raise.
C8_FirstUploadOfTheDay ==
    \E p \in Slots :
        /\ pc[p] = "result"
        /\ result[p]
        /\ contents[p] = <<>>
        /\ calls[p].put = 1
        /\ new_file_name[p] = file_name[p] \o <<"_", "1">>
        /\ bucket[new_file_name[p]].writer = run[p]

\* C9: the payload encoded and uploaded after a successful fetch of a
\* forecast is the snapshot extracted from its item list: one field per
\* recognised category code, with the last value of that code.
C9_PayloadIsSnapshot ==
    \A p \in Slots :
        (Resolved(p) /\ res[p].haspath /\ Len(res[p].items) >= 2) =>
            encoded_data[p] = process_weather_data(WeatherData(Parse(res[p])))

\* C10: an invocation that has returned went through Fetching, Extracting,
\* Encoding, ResolvingKey, Uploading and Done, each once and in that order.
C10_StageOrder ==
    \A p \in Slots :
        pc[p] = "returned" =>
            stages[p] = <<"Fetching", "Extracting", "Encoding", "ResolvingKey",
                          "Uploading", "Done">>

\* C11: an invocation whose 2xx response decodes to a mapping without
\* response/body/items/item fails on it: it makes no put call.
C11_MalformedIsFatal ==
    \A p \in Slots :
        (res[p].wellformed /\ ~res[p].haspath) => calls[p].put = 0

\* C12: a 2xx response whose body does not decode ends the invocation in the
\* decode error at once: that GET is the last one, no wait follows it, and no
\* list, no put and no answer is made.
C12_DecodeErrorIsFatal ==
    \A p \in Slots :
        calls[p].undecoded > 0 =>
            /\ pc[p] = "raised"
            /\ error[p] = "ExpatError"
            /\ calls[p].undecoded = 1
            /\ calls[p].get = calls[p].failed + 1
            /\ calls[p].sleep = calls[p].failed
            /\ calls[p].list = 0
            /\ calls[p].put = 0
            /\ statusCode[p] = 0

\* C12 witness: a body failed to decode after an earlier attempt had failed.
C12_RaisedOnDecode ==
    \E p \in Slots :
        /\ error[p] = "ExpatError"
        /\ calls[p].undecoded = 1
        /\ calls[p].failed >= 1
        /\ calls[p].sleep = calls[p].failed

\* C13: when list_objects_v2 raised, the invocation ends in that exception
\* with no put and no answer; a False result of upload_file_to_s3 comes from
\* a put that raised and from nothing else.
C13_ListErrorIsFatal ==
    \A p \in Slots :
        /\ calls[p].listfailed > 0 =>
              /\ pc[p] = "raised"
              /\ error[p] = "ClientError"
              /\ calls[p].list = 1
              /\ calls[p].put = 0
              /\ statusCode[p] = 0
        /\ calls[p].putfailed > 0 =>
              /\ error[p] = "none"
              /\ calls[p].listfailed = 0
        /\ (pc[p] = "result" /\ ~result[p]) => calls[p].putfailed = 1
        /\ statusCode[p] = 400 => calls[p].putfailed = 1

\* C13 witness: the listing raised although the bucket name was configured.
C13_RaisedOnList ==
    \E p \in Slots :
        /\ "BUCKET" \notin config
        /\ pc[p] = "raised"
        /\ error[p] = "ClientError"
        /\ calls[p].listfailed = 1
        /\ calls[p].put = 0

\* C14: with a required environment variable unset the invocation fails
\* before any request reaches the network, any wait and any storage call.
C14_ConfigErrorAtStartup ==
    \A p \in Slots :
        config # {} =>
            /\ calls[p].get > 0 => "WEATHER_OPENAPI_URL" \in config
            /\ calls[p].sleep = 0
            /\ calls[p].list = 0
            /\ calls[p].put = 0

\* C15: each failed attempt is followed by exactly one wait of interval
\* seconds, no GET is issued while a failure is still unwaited, and an
\* attempt that did not fail is followed by no wait.
C15_OneWaitPerFailure ==
    \A p \in Slots :
        /\ calls[p].waited = interval * calls[p].sleep
        /\ pc[p] = "sleep" =>
              /\ calls[p].failed = calls[p].sleep + 1
              /\ calls[p].get = calls[p].failed
        /\ pc[p] # "sleep" => calls[p].sleep = calls[p].failed
        /\ pc[p] = "get" => calls[p].get = calls[p].sleep
        /\ calls[p].get <= calls[p].sleep + 1

\* C15 witness: a second attempt is about to be issued after one failure and
\* one wait.
C15_WaitedBeforeRetry ==
    \E p \in Slots :
        /\ pc[p] = "get"
        /\ calls[p].get = 1
        /\ calls[p].failed = 1
        /\ calls[p].sleep = 1
        /\ calls[p].waited = interval

\* The keys of the bucket under a dated name.
KeysUnder(name) == {k \in DOMAIN bucket : StartsWith(k, name)}

\* C16: when invocations follow one another, a resolved key is the key of an
\* object already in the bucket only when the listing came back as a full page
\* and more keys lie under the dated name than the page holds; the put that
\* follows then replaces that object.
C16_TruncatedPageCollides ==
    /\ [](\A p \in Slots :
            (pc[p] = "put" /\ new_file_name[p] \in DOMAIN bucket) =>
                /\ Len(contents[p]) = MaxKeys
                /\ Cardinality(KeysUnder(file_name[p])) > MaxKeys
                /\ new_file_name[p] \notin Range(contents[p]))
    /\ [][\A p \in Slots :
            ( /\ pc[p] = "put"
              /\ new_file_name[p] \in DOMAIN bucket
              /\ pc'[p] = "result" /\ result'[p] )
            => /\ bucket'[new_file_name[p]] =
                      [Body |-> encoded_data[p], writer |-> run[p]]
               /\ bucket'[new_file_name[p]] # bucket[new_file_name[p]]]_vars

\* C16 witness: after a truncated listing an invocation holds the key of an
\* object that is in the bucket but was not on the page.
C16_UndercountedKey ==
    \E p \in Slots :
        /\ pc[p] = "put"
        /\ Len(contents[p]) = MaxKeys
        /\ Cardinality(KeysUnder(file_name[p])) > MaxKeys
        /\ new_file_name[p] \in DOMAIN bucket
        /\ new_file_name[p] \notin Range(contents[p])

\* C17: resolving the key issues one listing and no put, and leaves every
\* object of the bucket as it was, whether the listing answers or raises.
C17_ResolverOnlyLists ==
    [][\A p \in Slots :
          (pc[p] = "resolve" /\ pc'[p] # "resolve") =>
              /\ bucket' = bucket
              /\ calls'[p].list = calls[p].list + 1
              /\ calls'[p].put = calls[p].put
              /\ calls[p].put = 0]_vars

\* C17 witness: a key was resolved from a listing that held keys; one listing
\* and no put were issued.
C17_ResolvedFromListing ==
    \E p \in Slots :
        /\ pc[p] = "put"
        /\ contents[p] # <<>>
        /\ new_file_name[p] \notin DOMAIN bucket
        /\ calls[p].list = 1
        /\ calls[p].put = 0

\* C18: a put that raises leaves the bucket as it was, and while no put has
\* succeeded since, an invocation that follows it and builds the same dated
\* name resolves the key the failed invocation had resolved.
C18_FailedPutKeepsSuffix ==
    /\ [][\A p \in Slots :
            (pc[p] = "put" /\ pc'[p] = "result" /\ ~result'[p]) =>
                /\ bucket' = bucket
                /\ failedPut'.key = new_file_name[p]]_vars
    /\ [](\A p \in Slots :
            ( /\ pc[p] = "put"
              /\ failedPut # NoFailedPut
              /\ file_name[p] = failedPut.file_name )
            => new_file_name[p] = failedPut.key)

\* C18 witness: the second invocation holds, for the same dated name, the key
\* whose put raised in the first.
C18_SameKeyAfterFailedPut ==
    \E p \in Slots :
        /\ pc[p] = "put"
        /\ run[p] = 2
        /\ failedPut # NoFailedPut
        /\ file_name[p] = failedPut.file_name
        /\ new_file_name[p] = failedPut.key
        /\ new_file_name[p] \notin DOMAIN bucket

\* C19: an invocation issues at most max_retries GETs, at most one listing and
\* at most one put; once entered it ends, having returned statusCode 200 or
\* 400 or having raised an exception.
C19_Terminates ==
    /\ [](\A p \in Slots :
            /\ calls[p].get <= max_retries
            /\ calls[p].list <= 1
            /\ calls[p].put <= 1
            /\ pc[p] = "returned" =>
                  /\ statusCode[p] \in {200, 400}
                  /\ error[p] = "none"
            /\ pc[p] = "raised" =>
                  /\ error[p] # "none"
                  /\ statusCode[p] = 0)
    /\ \A p \in Slots :
          (~Finished(p)) ~> (pc[p] \in {"returned", "raised"})

\* C19 witness: an invocation returned 200 after its last permitted GET, one
\* listing and one put.
C19_ReturnedOnLastAttempt ==
    \E p \in Slots :
        /\ pc[p] = "returned"
        /\ statusCode[p] = 200
        /\ calls[p].get = max_retries
        /\ calls[p].list = 1
        /\ calls[p].put = 1

====
